---- MODULE Spec2Model ----
(***************************************************************************)
(* Reber-grammar string generation, corruption, encoding and dataset       *)
(* assembly of Lab8/Lab8_1.ipynb, as a state machine.                      *)
(*                                                                         *)
(* A Python str is a sequence of one-character strings; the list `output`  *)
(* of generate_string is a sequence of such strings.  Every call of        *)
(* np.random is one step of the machine and is logged in `draws`; on a     *)
(* source that was not seeded a traversal is followed by its position, and *)
(* no log is kept.                                                         *)
(***************************************************************************)
EXTENDS Integers, Sequences, FiniteSets, TLC

VARIABLES
    pc,            \* program position: idle, gen, index, bad_char, good_loop, bad_loop, done, error,
                   \* walk, returned
    op,            \* the top-level function called
    arg,           \* its argument (grammar name, size, or string)
    ret,           \* pending call sites, outermost first
    stack,         \* activation records of generate_string, outermost first
    good_string,   \* local of generate_corrupted_string
    index,         \* local of generate_corrupted_string
    good_strings,  \* local of generate_dataset
    bad_strings,   \* local of generate_dataset
    result,        \* what the top-level call returned or raised
    draws,         \* the random draws made since the seed, in order
    run,           \* "first", or "replay" after the source was seeded again
    tape,          \* the stream the seed fixes: the values the source gives
    first,         \* what the first run of the cell returned, and its draws
    cell           \* what the calls of the cell returned so far in this run

vars == <<pc, op, arg, ret, stack, good_string, index, good_strings,
          bad_strings, result, draws, run, tape, first, cell>>

----------------------------------------------------------------------------
(* Bounds of the model *)

\* most transition draws of one traversal, in the streams every cell is run on
MaxDraws == 14
\* largest size passed to generate_dataset
MaxSize == 2
\* most draws of one generate_dataset call, in the streams it is run on
MaxDataDraws == 22
\* longest arbitrary string passed to string_to_ids
MaxEncLen == 3
\* most calls of one cell
MaxCalls == 2
\* most draws of a cell of several calls, in the streams it is run on
MaxCellDraws == 12

----------------------------------------------------------------------------
(* Static data *)

\* Python's None as the next-state of the last transition
None == -1

\* the two grammars, by name (a production that is a list is a grammar)
GrammarNames == {"default_reber_grammar", "embedded_reber_grammar"}

Tr(production, state) == [production |-> production, state |-> state]

\* default_reber_grammar with the last transition leading back to state 1
default_reber_grammar_no_exit ==
    << << Tr("B", 1) >>,
       << Tr("T", 2), Tr("P", 3) >>,
       << Tr("S", 2), Tr("X", 4) >>,
       << Tr("T", 3), Tr("V", 5) >>,
       << Tr("X", 3), Tr("S", 6) >>,
       << Tr("P", 4), Tr("V", 6) >>,
       << Tr("E", 1) >> >>

default_reber_grammar ==
    << << Tr("B", 1) >>,
       << Tr("T", 2), Tr("P", 3) >>,
       << Tr("S", 2), Tr("X", 4) >>,
       << Tr("T", 3), Tr("V", 5) >>,
       << Tr("X", 3), Tr("S", 6) >>,
       << Tr("P", 4), Tr("V", 6) >>,
       << Tr("E", None) >> >>

\* embedded_reber_grammar with the next states of the two nested productions
\* exchanged
embedded_reber_grammar_crossed ==
    << << Tr("B", 1) >>,
       << Tr("T", 2), Tr("P", 3) >>,
       << Tr("default_reber_grammar", 5) >>,
       << Tr("default_reber_grammar", 4) >>,
       << Tr("T", 6) >>,
       << Tr("P", 6) >>,
       << Tr("E", None) >> >>

embedded_reber_grammar ==
    << << Tr("B", 1) >>,
       << Tr("T", 2), Tr("P", 3) >>,
       << Tr("default_reber_grammar", 4) >>,
       << Tr("default_reber_grammar", 5) >>,
       << Tr("T", 6) >>,
       << Tr("P", 6) >>,
       << Tr("E", None) >> >>

Grammar(g) ==
    IF g = "default_reber_grammar" THEN default_reber_grammar
                                   ELSE embedded_reber_grammar

POSSIBLE_CHARS == << "B", "E", "P", "S", "T", "V", "X" >>

\* a symbol outside POSSIBLE_CHARS, for string_to_ids
Foreign == "Z"

\* code points, the order sorted() uses
Ord(c) ==
    CASE c = "B" -> 66 [] c = "E" -> 69 [] c = "P" -> 80 [] c = "S" -> 83
      [] c = "T" -> 84 [] c = "V" -> 86 [] c = "X" -> 88 [] OTHER -> 90

----------------------------------------------------------------------------
(* Python helpers *)

\* len(grammar[state])
NumTransitions(g, state) == Len(Grammar(g)[state + 1])

\* grammar[state][index]
Transition(g, state, i) == Grammar(g)[state + 1][i + 1]

\* isinstance(production, list)
IsList(production) == production \in GrammarNames

RECURSIVE Join(_)
\* "".join(output)
Join(output) ==
    IF output = << >> THEN << >> ELSE Head(output) \o Join(Tail(output))

\* set(chars)
SetOf(chars) == { chars[k] : k \in 1..Len(chars) }

RECURSIVE Sorted(_)
\* sorted(S) for a set of characters
Sorted(S) ==
    IF S = {} THEN << >>
    ELSE LET m == CHOOSE x \in S : \A y \in S : Ord(x) <= Ord(y)
         IN  << m >> \o Sorted(S \ {m})

\* IndexIn counting from one
IndexInOneBased(chars, c) ==
    CHOOSE k \in 1..Len(chars) :
        chars[k] = c /\ \A j \in 1..(k - 1) : chars[j] # c

\* chars.index(c): the first position of c in chars, zero-based
IndexIn(chars, c) ==
    (CHOOSE k \in 1..Len(chars) :
        chars[k] = c /\ \A j \in 1..(k - 1) : chars[j] # c) - 1

\* a returned value, and a raised exception
Ok(v) == [exc |-> "", value |-> v]
Raise(e) == [exc |-> e, value |-> << >>]

\* string_to_ids with chars.find(c), which gives -1 and does not raise
string_to_ids_find(s, chars) ==
    Ok([k \in 1..Len(s) |->
          IF s[k] \in SetOf(chars) THEN IndexIn(chars, s[k]) ELSE 0 - 1])

\* string_to_ids(s, chars): [chars.index(c) for c in s]; str.index raises
\* ValueError for a character that is not in chars
string_to_ids(s, chars) ==
    IF \E k \in 1..Len(s) : s[k] \notin SetOf(chars)
    THEN Raise("ValueError")
    ELSE Ok([k \in 1..Len(s) |-> IndexIn(chars, s[k])])

\* Candidates without the subtraction: sorted(set(chars))
CandidatesAll(chars, good_char) == Sorted(SetOf(chars))

\* sorted(set(chars) - set(good_char))
Candidates(chars, good_char) == Sorted(SetOf(chars) \ {good_char})

\* Splice with the tail taken from index: good_string[:index] + bad_char + good_string[index:]
SpliceInsert(s, i, bad_char) ==
    SubSeq(s, 1, i) \o << bad_char >> \o SubSeq(s, i + 1, Len(s))

\* good_string[:index] + bad_char + good_string[index + 1:]
Splice(s, i, bad_char) ==
    SubSeq(s, 1, i) \o << bad_char >> \o SubSeq(s, i + 2, Len(s))

\* range(n) still has an item after k iterations
InRange(k, n) == k < n

\* size // 2, the number of good strings
NumGood(size) == size \div 2

\* NumBad as one more half: size // 2
NumBadHalf(size) == size \div 2

\* size - size // 2, the number of bad strings
NumBad(size) == size - size \div 2

\* the labels y: [1.] per good string, then [0.] per bad string
Labels(good, bad) ==
    [k \in 1..Len(good) |-> << 1 >>] \o [k \in 1..Len(bad) |-> << 0 >>]

----------------------------------------------------------------------------
(* generate_string *)

\* state = 0; output = []
Frame(g) == [grammar |-> g, state |-> 0, output |-> << >>]

Top == stack[Len(stack)]

Below == SubSeq(stack, 1, Len(stack) - 1)

\* randint from a generator that np.random.seed does not seed (Python's
\* random.randrange): any of the n values
randrange(n) == 0..(n - 1)

\* np.random.randint(n) / np.random.choice over n items: the next value of
\* the stream the seed fixed; any of the n values where the stream is open
randint(n) ==
    IF Len(draws) < Len(tape)
    THEN { tape[Len(draws) + 1] } \cap (0..(n - 1))
    ELSE 0..(n - 1)

Drawn(kind, n, v) == Append(draws, [kind |-> kind, n |-> n, v |-> v])

\* one iteration of the while loop, for the drawn index i: the stack after
\* production, state = grammar[state][index] and either the recursive call
\* or output.append(production)
Iterate(st, i) ==
    LET top == st[Len(st)]
        t   == Transition(top.grammar, top.state, i)
    IN  IF IsList(t.production)
        THEN SubSeq(st, 1, Len(st) - 1)
             \o << [top EXCEPT !.state = t.state] >>
             \o << Frame(t.production) >>
        ELSE SubSeq(st, 1, Len(st) - 1)
             \o << [top EXCEPT !.state = t.state,
                               !.output = Append(@, << t.production >>)] >>

\* Resume with `state` shared between the activations: the caller goes on
\* from the state the nested traversal ended in
ResumeSharedState(caller, s) ==
    [caller EXCEPT !.output = Append(@, s), !.state = None]

\* Resume with the append left in an else branch: the sub-string is dropped
ResumeDropped(caller, s) == caller

\* the caller's frame after production = generate_string(grammar=production)
\* returned s and output.append(production) ran
Resume(caller, s) == [caller EXCEPT !.output = Append(@, s)]

\* the stack after the nested traversal on top of st returned its string
Unwind(st) ==
    SubSeq(st, 1, Len(st) - 2)
    \o << Resume(st[Len(st) - 1], Join(st[Len(st)].output)) >>

\* one iteration of `while state is not None`, for the index the source gives
Step ==
    /\ pc = "gen"
    /\ Top.state # None
    /\ \E i \in randint(NumTransitions(Top.grammar, Top.state)) :
          /\ stack' = Iterate(stack, i)
          /\ draws' = Drawn("transition", NumTransitions(Top.grammar, Top.state), i)
    /\ UNCHANGED <<pc, op, arg, ret, good_string, index, good_strings,
                   bad_strings, result, run, tape, first, cell>>

\* return "".join(output), into the recursive call of an outer traversal
ReturnNested ==
    /\ pc = "gen"
    /\ Top.state = None
    /\ Len(stack) > 1
    /\ stack' = Unwind(stack)
    /\ UNCHANGED <<pc, op, arg, ret, good_string, index, good_strings,
                   bad_strings, result, draws, run, tape, first, cell>>

\* AfterGenerate with the position draw skipped (index keeps its value)
AfterGenerateNoIndex(site) ==
    CASE site = "corrupt" -> "bad_char"
      [] site = "good"    -> "good_loop"
      [] OTHER            -> "done"

\* where the outermost generate_string returns to
AfterGenerate(site) ==
    CASE site = "corrupt" -> "index"
      [] site = "good"    -> "good_loop"
      [] OTHER            -> "done"

\* return "".join(output), out of the outermost traversal
Return ==
    /\ pc = "gen"
    /\ Top.state = None
    /\ Len(stack) = 1
    /\ stack' = << >>
    /\ LET s    == Join(Top.output)
           site == IF ret = << >> THEN "" ELSE ret[Len(ret)]
       IN  /\ pc' = AfterGenerate(site)
           /\ CASE site = "corrupt" ->
                     /\ good_string' = s
                     /\ UNCHANGED <<ret, good_strings, result>>
                [] site = "good" ->
                     /\ good_strings' =
                            Append(good_strings, string_to_ids(s, POSSIBLE_CHARS).value)
                     /\ ret' = << >>
                     /\ UNCHANGED <<good_string, result>>
                [] OTHER ->
                     /\ result' = Ok(s)
                     /\ UNCHANGED <<ret, good_string, good_strings>>
    /\ UNCHANGED <<op, arg, index, bad_strings, draws, run, tape, first, cell>>

----------------------------------------------------------------------------
(* generate_corrupted_string *)

\* index = np.random.randint(len(good_string)); good_char = good_string[index]
DrawIndex ==
    /\ pc = "index"
    /\ \E i \in randint(Len(good_string)) :
          /\ index' = i
          /\ draws' = Drawn("position", Len(good_string), i)
    /\ pc' = "bad_char"
    /\ UNCHANGED <<op, arg, ret, stack, good_string, good_strings, bad_strings,
                   result, run, tape, first, cell>>

\* bad_char = np.random.choice(sorted(set(chars) - set(good_char))) and the
\* return of the spliced string, to the user or into generate_dataset
DrawBadChar ==
    /\ pc = "bad_char"
    /\ LET cands == Candidates(POSSIBLE_CHARS, good_string[index + 1])
       IN  \E j \in randint(Len(cands)) :
              LET s == Splice(good_string, index, cands[j + 1])
              IN  /\ draws' = Drawn("replacement", Len(cands), j)
                  /\ IF ret = << "corrupt" >>
                     THEN /\ result' = Ok(s)
                          /\ pc' = "done"
                          /\ ret' = << >>
                          /\ UNCHANGED bad_strings
                     ELSE /\ bad_strings' =
                                 Append(bad_strings, string_to_ids(s, POSSIBLE_CHARS).value)
                          /\ pc' = "bad_loop"
                          /\ ret' = << >>
                          /\ UNCHANGED result
    /\ UNCHANGED <<op, arg, stack, good_string, index, good_strings, run, tape, first, cell>>

----------------------------------------------------------------------------
(* generate_dataset *)

\* the list comprehension of good strings calls generate_string again
GoodIter ==
    /\ pc = "good_loop"
    /\ InRange(Len(good_strings), NumGood(arg))
    /\ stack' = << Frame("embedded_reber_grammar") >>
    /\ ret' = << "good" >>
    /\ pc' = "gen"
    /\ UNCHANGED <<op, arg, good_string, index, good_strings, bad_strings,
                   result, draws, run, tape, first, cell>>

\* the comprehension of good strings is exhausted
GoodExit ==
    /\ pc = "good_loop"
    /\ ~InRange(Len(good_strings), NumGood(arg))
    /\ pc' = "bad_loop"
    /\ UNCHANGED <<op, arg, ret, stack, good_string, index, good_strings,
                   bad_strings, result, draws, run, tape, first, cell>>

\* the list comprehension of bad strings calls generate_corrupted_string
BadIter ==
    /\ pc = "bad_loop"
    /\ InRange(Len(bad_strings), NumBad(arg))
    /\ stack' = << Frame("embedded_reber_grammar") >>
    /\ ret' = << "bad", "corrupt" >>
    /\ pc' = "gen"
    /\ UNCHANGED <<op, arg, good_string, index, good_strings, bad_strings,
                   result, draws, run, tape, first, cell>>

\* all_strings = good_strings + bad_strings; X, y; return X, y
Assemble ==
    /\ pc = "bad_loop"
    /\ ~InRange(Len(bad_strings), NumBad(arg))
    /\ result' = Ok(<< good_strings \o bad_strings, Labels(good_strings, bad_strings) >>)
    /\ pc' = "done"
    /\ UNCHANGED <<op, arg, ret, stack, good_string, index, good_strings,
                   bad_strings, draws, run, tape, first, cell>>

----------------------------------------------------------------------------
(* The random stream. np.random.seed fixes the values the source gives; a  *)
(* cell is run on every stream on which its call makes few draws, and on   *)
(* the streams behind the outputs the notebook recorded.                   *)

\* the strings the notebook printed for generate_string(default_reber_grammar)
recorded_default ==
    { << "B", "T", "X", "X", "T", "T", "V", "P", "X", "T", "V", "P", "X",
         "T", "T", "V", "P", "S", "E" >>,
      << "B", "P", "V", "P", "S", "E" >>,
      << "B", "T", "X", "S", "E" >>,
      << "B", "P", "V", "V", "E" >>,
      << "B", "T", "S", "X", "S", "E" >>,
      << "B", "P", "T", "V", "P", "X", "T", "T", "T", "V", "V", "E" >>,
      << "B", "T", "X", "X", "V", "P", "S", "E" >>,
      << "B", "P", "T", "T", "T", "T", "T", "T", "T", "T", "V", "V", "E" >>,
      << "B", "P", "T", "V", "P", "S", "E" >>,
      << "B", "T", "X", "X", "T", "V", "P", "S", "E" >>,
      << "B", "P", "T", "T", "V", "V", "E" >>,
      << "B", "T", "X", "X", "V", "V", "E" >>,
      << "B", "T", "X", "X", "V", "P", "X", "V", "V", "E" >> }

\* the strings the notebook printed for generate_string(embedded_reber_grammar)
recorded_embedded ==
    { << "B", "T", "B", "P", "T", "T", "T", "V", "P", "X", "T", "V", "P",
         "X", "T", "T", "V", "P", "S", "E", "T", "E" >>,
      << "B", "P", "B", "P", "T", "V", "P", "S", "E", "P", "E" >>,
      << "B", "P", "B", "P", "V", "V", "E", "P", "E" >>,
      << "B", "P", "B", "P", "V", "P", "X", "V", "V", "E", "P", "E" >>,
      << "B", "P", "B", "T", "X", "X", "T", "T", "T", "T", "V", "V", "E",
         "P", "E" >>,
      << "B", "P", "B", "P", "V", "P", "S", "E", "P", "E" >>,
      << "B", "P", "B", "T", "X", "X", "V", "P", "S", "E", "P", "E" >>,
      << "B", "P", "B", "T", "S", "S", "S", "S", "S", "S", "S", "X", "S",
         "E", "P", "E" >>,
      << "B", "T", "B", "P", "V", "V", "E", "T", "E" >>,
      << "B", "P", "B", "T", "X", "X", "V", "V", "E", "P", "E" >>,
      << "B", "T", "B", "T", "X", "X", "V", "V", "E", "T", "E" >>,
      << "B", "P", "B", "T", "S", "X", "S", "E", "P", "E" >>,
      << "B", "T", "B", "P", "T", "V", "P", "X", "V", "V", "E", "T", "E" >>,
      << "B", "T", "B", "T", "S", "S", "S", "S", "S", "S", "S", "X", "X",
         "V", "V", "E", "T", "E" >>,
      << "B", "P", "B", "T", "S", "S", "S", "X", "X", "T", "T", "T", "T",
         "V", "P", "S", "E", "P", "E" >>,
      << "B", "T", "B", "P", "T", "T", "V", "V", "E", "T", "E" >>,
      << "B", "P", "B", "T", "X", "X", "T", "V", "V", "E", "P", "E" >>,
      << "B", "T", "B", "T", "X", "S", "E", "T", "E" >> }

\* the strings the notebook printed for
\* generate_corrupted_string(embedded_reber_grammar)
recorded_corrupted ==
    { << "B", "T", "B", "P", "T", "T", "T", "P", "P", "X", "T", "V", "P",
         "X", "T", "T", "V", "P", "S", "E", "T", "E" >>,
      << "B", "P", "B", "T", "X", "E", "E", "P", "E" >>,
      << "B", "P", "B", "P", "T", "V", "V", "V", "E", "P", "E" >>,
      << "B", "P", "B", "T", "S", "S", "S", "S", "X", "S", "E", "T", "E" >>,
      << "B", "P", "T", "T", "X", "S", "E", "P", "E" >>,
      << "B", "T", "B", "P", "V", "P", "X", "T", "T", "T", "T", "T", "T",
         "E", "V", "E", "T", "E" >>,
      << "B", "P", "B", "T", "X", "X", "S", "V", "E", "P", "E" >>,
      << "B", "S", "B", "P", "T", "T", "V", "P", "S", "E", "T", "E" >>,
      << "B", "P", "B", "X", "V", "V", "E", "P", "E" >>,
      << "B", "E", "B", "T", "X", "S", "E", "T", "E" >>,
      << "B", "P", "B", "P", "V", "P", "S", "X", "P", "E" >>,
      << "B", "T", "B", "P", "V", "V", "V", "E", "T", "E" >>,
      << "B", "P", "B", "T", "S", "X", "S", "E", "T", "E" >>,
      << "B", "P", "B", "P", "T", "T", "T", "P", "T", "T", "T", "T", "T",
         "V", "P", "S", "E", "P", "E" >>,
      << "B", "T", "B", "T", "X", "X", "T", "T", "S", "T", "V", "P", "S",
         "E", "T", "E" >>,
      << "B", "B", "B", "T", "X", "S", "E", "T", "E" >>,
      << "B", "P", "B", "T", "P", "X", "S", "E", "P", "E" >>,
      << "B", "P", "B", "P", "V", "P", "X", "T", "T", "T", "T", "V", "P",
         "X", "T", "V", "P", "X", "V", "P", "X", "T", "T", "T", "V", "V", "E",
         "V", "E" >>,
      << "B", "T", "B", "X", "X", "X", "T", "V", "P", "S", "E", "T", "E" >>,
      << "B", "E", "B", "T", "S", "S", "S", "S", "S", "X", "X", "V", "P",
         "X", "T", "V", "V", "E", "T", "E" >>,
      << "B", "T", "B", "X", "T", "T", "V", "V", "E", "T", "E" >>,
      << "B", "P", "B", "T", "X", "S", "T", "P", "E" >>,
      << "B", "T", "B", "T", "X", "X", "T", "T", "T", "V", "P", "S", "B",
         "T", "E" >>,
      << "B", "T", "B", "T", "X", "S", "E", "T", "X" >>,
      << "B", "T", "B", "T", "S", "X", "S", "S", "T", "E" >> }

RECURSIVE Runs(_, _)
\* the traversals that take the stack st to the return of its outermost
\* activation with at most n draws: the indexes drawn, the string returned
Runs(st, n) ==
    LET top == st[Len(st)]
    IN  IF top.state = None
        THEN IF Len(st) = 1
             THEN { [t |-> << >>, s |-> Join(top.output)] }
             ELSE Runs(Unwind(st), n)
        ELSE IF n = 0 THEN {}
        ELSE UNION { { [t |-> << i >> \o r.t, s |-> r.s] :
                         r \in Runs(Iterate(st, i), n - 1) } :
                     i \in 0..(NumTransitions(top.grammar, top.state) - 1) }

RECURSIVE Flat(_)
\* what the activations of st have appended so far, outermost first
Flat(st) ==
    IF st = << >> THEN << >> ELSE Join(Head(st).output) \o Flat(Tail(st))

IsPrefix(u, s) == Len(u) <= Len(s) /\ SubSeq(s, 1, Len(u)) = u

RECURSIVE RunsOf(_, _)
\* the traversals that take the stack st to the return of the string s
RunsOf(st, s) ==
    LET top == st[Len(st)]
    IN  IF ~IsPrefix(Flat(st), s) THEN {}
        ELSE IF top.state = None
        THEN IF Len(st) = 1
             THEN IF Join(top.output) = s THEN { [t |-> << >>, s |-> s] } ELSE {}
             ELSE RunsOf(Unwind(st), s)
        ELSE UNION { { [t |-> << i >> \o r.t, s |-> r.s] :
                         r \in RunsOf(Iterate(st, i), s) } :
                     i \in 0..(NumTransitions(top.grammar, top.state) - 1) }

\* generate_string(g) on every stream of at most MaxDraws draws
StringRuns == [g \in GrammarNames |-> Runs(<< Frame(g) >>, MaxDraws)]

\* the streams on which generate_string(g) printed what the notebook shows
RecordedRuns ==
    [g \in GrammarNames |->
        UNION { RunsOf(<< Frame(g) >>, s) :
                  s \in IF g = "default_reber_grammar"
                        THEN recorded_default ELSE recorded_embedded }]

\* the symbols a replacement for c is drawn from, in the order of the draw
Others(c) == Sorted(SetOf(POSSIBLE_CHARS) \ {c})

\* the streams of generate_corrupted_string after the traversal r: the
\* position drawn over the string, the replacement over the candidates
Corruptions(r) ==
    UNION { { r.t \o << i, j >> :
                j \in 0..(Len(Others(r.s[i + 1])) - 1) } :
            i \in 0..(Len(r.s) - 1) }

\* the streams on which generate_corrupted_string(g) returns s
CorruptionsTo(g, s) ==
    UNION { UNION { { r.t \o << i, j >> :
                        r \in RunsOf(<< Frame(g) >>, [s EXCEPT ![i + 1] = c]),
                        j \in { k \in 0..(Len(Others(c)) - 1) :
                                  Others(c)[k + 1] = s[i + 1] } } :
                    c \in SetOf(POSSIBLE_CHARS) \ {s[i + 1]} } :
            i \in 0..(Len(s) - 1) }

\* the streams a generate_string(g) cell is run on
StringTapes ==
    [g \in GrammarNames |-> { r.t : r \in StringRuns[g] \cup RecordedRuns[g] }]

\* the streams a generate_corrupted_string(g) cell is run on
CorruptedTapes ==
    [g \in GrammarNames |->
        UNION { Corruptions(r) : r \in StringRuns[g] }
        \cup IF g = "embedded_reber_grammar"
             THEN UNION { CorruptionsTo(g, s) : s \in recorded_corrupted }
             ELSE {}]

\* generate_string(embedded_reber_grammar) inside generate_dataset
DataRuns == StringRuns["embedded_reber_grammar"]

\* generate_corrupted_string(embedded_reber_grammar) inside generate_dataset
DataCorruptions == UNION { Corruptions(r) : r \in DataRuns }

Least(S) == IF S = {} THEN 0 ELSE CHOOSE n \in S : \A k \in S : n <= k

\* the fewest draws one good string and one bad string take
LeastGood == Least({ Len(r.t) : r \in DataRuns })
LeastBad == Least({ Len(t) : t \in DataCorruptions })

\* the fewest draws `good` good strings and `bad` bad strings take
Need(good, bad) ==
    (IF good > 0 THEN good * LeastGood ELSE 0)
    + (IF bad > 0 THEN bad * LeastBad ELSE 0)

RECURSIVE DataTapes(_, _, _)
\* the streams of at most n draws on which generate_dataset makes `good`
\* calls of generate_string and then `bad` of generate_corrupted_string
DataTapes(good, bad, n) ==
    IF Need(good, bad) > n THEN {}
    ELSE IF good > 0
    THEN UNION { { r.t \o u : u \in DataTapes(good - 1, bad, n - Len(r.t)) } :
                 r \in { x \in DataRuns : Len(x.t) + Need(good - 1, bad) <= n } }
    ELSE IF bad > 0
    THEN UNION { { t \o u : u \in DataTapes(good, bad - 1, n - Len(t)) } :
                 t \in { x \in DataCorruptions : Len(x) + Need(good, bad - 1) <= n } }
    ELSE { << >> }

\* the streams a generate_dataset(size) cell is run on
DatasetTapes(size) == DataTapes(NumGood(size), NumBad(size), MaxDataDraws)

\* the streams of every size a cell passes
DatasetStreams == [size \in (0 - 2)..MaxSize |-> DatasetTapes(size)]

\* the fewest draws of a call that draws
LeastDraws == Least({ Len(t) : t \in StringTapes["default_reber_grammar"] })

\* the streams of T of at most n draws
Fitting(T, n) ==
    CASE n < 0 -> {}
      [] n \in 0..(LeastDraws - 1) -> { t \in { << >> } : t \in T }
      [] OTHER -> { t \in T : Len(t) <= n }

\* np.random.seed(42): the stream of the cell. The first call of a cell is
\* run on one of T, a later call on what the source gives after the draws of
\* the calls before it; the same stream when the cell is seeded again
Seeded(T) ==
    CASE run # "first" -> {tape}
      [] cell = << >> -> T
      [] Len(cell) < MaxCalls ->
             { tape \o t : t \in Fitting(T, MaxCellDraws - Len(tape)) }
      [] OTHER -> {}

----------------------------------------------------------------------------
(* The calls a notebook cell makes *)

\* after a re-seed the cell is run again: the same calls in the same order
Again(f, a) ==
    \/ run = "first"
    \/ /\ Len(cell) < Len(first.cell)
       /\ first.cell[Len(cell) + 1].op = f
       /\ first.cell[Len(cell) + 1].arg = a

CallGenerateString ==
    /\ pc = "idle"
    /\ \E g \in GrammarNames :
          /\ Again("generate_string", g)
          /\ \E t \in Seeded(StringTapes[g]) : tape' = t
          /\ op' = "generate_string"
          /\ arg' = g
          /\ stack' = << Frame(g) >>
    /\ ret' = << >>
    /\ pc' = "gen"
    /\ UNCHANGED <<good_string, index, good_strings, bad_strings, result,
                   draws, run, first, cell>>

CallGenerateCorruptedString ==
    /\ pc = "idle"
    /\ \E g \in GrammarNames :
          /\ Again("generate_corrupted_string", g)
          /\ \E t \in Seeded(CorruptedTapes[g]) : tape' = t
          /\ op' = "generate_corrupted_string"
          /\ arg' = g
          /\ stack' = << Frame(g) >>
    /\ ret' = << "corrupt" >>
    /\ pc' = "gen"
    /\ UNCHANGED <<good_string, index, good_strings, bad_strings, result,
                   draws, run, first, cell>>

\* generate_dataset(size), for the sizes in Sizes
CallDataset(Sizes) ==
    /\ pc = "idle"
    /\ \E size \in Sizes :
          /\ Again("generate_dataset", size)
          /\ \E t \in Seeded(DatasetStreams[size]) : tape' = t
          /\ op' = "generate_dataset"
          /\ arg' = size
    /\ good_strings' = << >>
    /\ bad_strings' = << >>
    /\ pc' = "good_loop"
    /\ UNCHANGED <<ret, stack, good_string, index, result, draws, run, first,
                   cell>>

CallGenerateDataset == CallDataset((0 - 2)..MaxSize)

\* the sizes of the repeated run: no example, one good and one bad
SeedSizes == {0, 2}

CallGenerateDatasetSeeded == CallDataset(SeedSizes)

RECURSIVE Strings(_, _)
\* the strings over the symbols S of length at most n
Strings(S, n) ==
    IF n = 0 THEN { << >> }
    ELSE Strings(S, n - 1)
         \cup { Append(w, c) : w \in Strings(S, n - 1), c \in S }

\* the string the notebook encodes by hand
Example == << "B", "T", "T", "T", "X", "X", "V", "V", "E", "T", "E" >>

\* the strings the notebook's test cell encodes
test_strings ==
    { << "B", "P", "B", "T", "S", "S", "S", "S", "S", "S", "S", "X", "X", "T", "T",
         "V", "P", "X", "V", "P", "X", "T", "T", "T", "T", "T", "V", "V", "E", "T", "E" >>,
      << "B", "P", "B", "T", "S", "S", "S", "S", "S", "S", "S", "X", "X", "T", "T",
         "V", "P", "X", "V", "P", "X", "T", "T", "T", "T", "T", "V", "V", "E", "P", "E" >> }

EncInputs ==
    Strings(SetOf(POSSIBLE_CHARS) \cup {Foreign}, MaxEncLen)
    \cup {Example} \cup test_strings

\* string_to_ids(s), called directly
CallStringToIds ==
    /\ pc = "idle"
    /\ \E s \in EncInputs :
          /\ op' = "string_to_ids"
          /\ arg' = s
          /\ result' = string_to_ids(s, POSSIBLE_CHARS)
          /\ pc' = IF string_to_ids(s, POSSIBLE_CHARS).exc = "" THEN "done" ELSE "error"
    /\ UNCHANGED <<ret, stack, good_string, index, good_strings, bad_strings,
                   draws, run, tape, first, cell>>

\* the cell takes what the call returned (it prints it, or binds it to
\* X_train, y_train) and goes on to its next call
Collect ==
    /\ pc = "done"
    /\ cell' = Append(cell, [op |-> op, arg |-> arg, result |-> result,
                             upto |-> Len(draws)])
    /\ pc' = "idle"
    /\ UNCHANGED <<op, arg, ret, stack, good_string, index, good_strings,
                   bad_strings, result, draws, run, tape, first>>

\* np.random.seed(42) again, and the same cell once more
Reseed ==
    /\ pc = "idle"
    /\ cell # << >>
    /\ run = "first"
    /\ run' = "replay"
    /\ first' = [cell |-> cell, draws |-> draws]
    /\ cell' = << >>
    /\ draws' = << >>
    /\ pc' = "idle"
    /\ ret' = << >>
    /\ stack' = << >>
    /\ good_string' = << >>
    /\ index' = 0
    /\ good_strings' = << >>
    /\ bad_strings' = << >>
    /\ result' = Ok(<< >>)
    /\ UNCHANGED <<op, arg, tape>>

----------------------------------------------------------------------------
(* Specifications *)

Init ==
    /\ pc = "idle"
    /\ op = ""
    /\ arg = ""
    /\ ret = << >>
    /\ stack = << >>
    /\ good_string = << >>
    /\ index = 0
    /\ good_strings = << >>
    /\ bad_strings = << >>
    /\ result = Ok(<< >>)
    /\ draws = << >>
    /\ run = "first"
    /\ tape = << >>
    /\ first = [cell |-> << >>, draws |-> << >>]
    /\ cell = << >>

\* generate_string and generate_corrupted_string on either grammar
Next ==
    \/ CallGenerateString
    \/ CallGenerateCorruptedString
    \/ Step
    \/ ReturnNested
    \/ Return
    \/ DrawIndex
    \/ DrawBadChar

Spec == Init /\ [][Next]_vars

\* generate_dataset
NextData ==
    \/ CallGenerateDataset
    \/ GoodIter
    \/ GoodExit
    \/ BadIter
    \/ Assemble
    \/ Step
    \/ ReturnNested
    \/ Return
    \/ DrawIndex
    \/ DrawBadChar

SpecData == Init /\ [][NextData]_vars

\* string_to_ids
NextEnc == CallStringToIds

SpecEnc == Init /\ [][NextEnc]_vars

\* every cell, run twice from the same seed
NextSeed ==
    \/ CallGenerateString
    \/ CallGenerateCorruptedString
    \/ CallGenerateDatasetSeeded
    \/ GoodIter
    \/ GoodExit
    \/ BadIter
    \/ Assemble
    \/ Step
    \/ ReturnNested
    \/ Return
    \/ DrawIndex
    \/ DrawBadChar
    \/ Collect
    \/ Reseed

SpecSeed == Init /\ [][NextSeed]_vars

\* what `while state is not None` and grammar[state] read of an activation:
\* its grammar and its state. Of its output only whether the number of items
\* is odd is kept, so that an iteration of a self-loop is a step
Position(st) ==
    [k \in 1..Len(st) |->
        [st[k] EXCEPT !.output = SubSeq(<< << >> >>, 1, Len(@) % 2)]]

\* generate_string(grammar) on a source that was not seeded: every draw is
\* open, and the traversal is followed by its position
CallUnseeded ==
    /\ pc = "idle"
    /\ \E g \in GrammarNames :
          /\ op' = "generate_string"
          /\ arg' = g
          /\ stack' = << Frame(g) >>
    /\ pc' = "walk"
    /\ UNCHANGED <<ret, good_string, index, good_strings, bad_strings, result,
                   draws, run, tape, first, cell>>

\* the iteration of the while loop that stands in state s of grammar g and
\* draws index i
StepAt(g, s, i) ==
    /\ pc = "walk"
    /\ Top.grammar = g
    /\ Top.state = s
    /\ i \in randint(NumTransitions(g, s))
    /\ stack' = Position(Iterate(stack, i))
    /\ UNCHANGED <<pc, op, arg, ret, good_string, index, good_strings,
                   bad_strings, result, draws, run, tape, first, cell>>

\* the states of grammar g
States(g) == 0..(Len(Grammar(g)) - 1)

\* one iteration of the while loop on the unseeded source
StepUnseeded ==
    \E g \in GrammarNames : \E s \in States(g) :
        \E i \in 0..(NumTransitions(g, s) - 1) : StepAt(g, s, i)

\* the return of a nested traversal on the unseeded source
ReturnNestedUnseeded ==
    /\ pc = "walk"
    /\ Top.state = None
    /\ Len(stack) > 1
    /\ stack' = Position(Unwind(stack))
    /\ UNCHANGED <<pc, op, arg, ret, good_string, index, good_strings,
                   bad_strings, result, draws, run, tape, first, cell>>

\* the return of the outermost traversal on the unseeded source
ReturnUnseeded ==
    /\ pc = "walk"
    /\ Top.state = None
    /\ Len(stack) = 1
    /\ stack' = << >>
    /\ pc' = "returned"
    /\ UNCHANGED <<op, arg, ret, good_string, index, good_strings,
                   bad_strings, result, draws, run, tape, first, cell>>

\* generate_string on either grammar, on seeded streams and unseeded
NextFair ==
    \/ CallGenerateString
    \/ Step
    \/ ReturnNested
    \/ Return
    \/ CallUnseeded
    \/ StepUnseeded
    \/ ReturnNestedUnseeded
    \/ ReturnUnseeded

\* the interpreter goes on: a loop whose condition holds iterates, a loop
\* whose condition is false exits
Progress ==
    /\ WF_vars(StepUnseeded)
    /\ WF_vars(ReturnNestedUnseeded)
    /\ WF_vars(ReturnUnseeded)

\* the states of grammar g that have more than one transition
Choices(g) == { s \in States(g) : NumTransitions(g, s) > 1 }

\* a uniform draw, per state and transition: a transition that is available
\* again and again at a state the traversal visits is taken there. A state
\* with one transition leaves no choice: Progress takes it
Fairness ==
    \A g \in GrammarNames : \A s \in Choices(g) :
        \A i \in 0..(NumTransitions(g, s) - 1) : SF_vars(StepAt(g, s, i))

FairSpec == Init /\ [][NextFair]_vars /\ Progress

----------------------------------------------------------------------------
(* Membership in a grammar's language *)

RECURSIVE Ends(_, _, _, _)
\* the positions of s at which a replay of s from position pos, started in
\* `state` of grammar g, can stand at the terminal sentinel
Ends(g, state, s, pos) ==
    IF state = None THEN {pos}
    ELSE UNION {
           LET t == Transition(g, state, i)
           IN  IF IsList(t.production)
               THEN UNION { Ends(g, t.state, s, q) : q \in Ends(t.production, 0, s, pos) }
               ELSE IF pos < Len(s) /\ s[pos + 1] = t.production
                    THEN Ends(g, t.state, s, pos + 1)
                    ELSE {}
           : i \in 0..(NumTransitions(g, state) - 1) }

\* replaying s from state 0 consumes exactly s and ends at None
Accepts(g, s) == Len(s) \in Ends(g, 0, s, 0)

\* the grammar a call works on
GrammarOf == IF op = "generate_dataset" THEN "embedded_reber_grammar" ELSE arg

----------------------------------------------------------------------------
(* Claims *)

\* C1: every string generate_string returns, from the outermost call or from
\* a nested one, is accepted by the grammar it was generated from: the replay
\* from state 0 consumes exactly its symbols and ends at None.
GeneratedIsAccepted ==
    /\ (pc = "gen" /\ Top.state = None) => Accepts(Top.grammar, Join(Top.output))
    /\ (pc = "done" /\ op = "generate_string") => Accepts(arg, result.value)
    /\ pc \in {"index", "bad_char"} => Accepts(GrammarOf, good_string)

\* a string of the embedded grammar whose nested traversal went round a cycle
GeneratedLongEmbedded ==
    /\ pc = "done"
    /\ op = "generate_string"
    /\ arg = "embedded_reber_grammar"
    /\ Len(result.value) > 9

\* C2: no string generate_corrupted_string returns is in the language of the
\* grammar it was called with.
CorruptedIsRejected ==
    (pc = "done" /\ op = "generate_corrupted_string") => ~Accepts(arg, result.value)

\* a corrupted string whose replacement is a symbol the grammar also allows
\* at some position (T for P right after the first B)
CorruptedSecondSymbol ==
    /\ pc = "done"
    /\ op = "generate_corrupted_string"
    /\ index = 1
    /\ good_string[2] = "P"
    /\ result.value[2] = "T"

\* C3: the corrupted string has the length of the baseline string and differs
\* from it exactly at the drawn position, which lies in [0, L); the symbol
\* there is an alphabet member other than the baseline symbol, and each of
\* the other alphabet symbols can be drawn.
OnePositionDiffers ==
    /\ (pc = "done" /\ op = "generate_corrupted_string") =>
          /\ Len(good_string) >= 1
          /\ Len(result.value) = Len(good_string)
          /\ index \in 0..(Len(good_string) - 1)
          /\ \A k \in 1..Len(good_string) :
                (result.value[k] # good_string[k]) <=> (k = index + 1)
          /\ result.value[index + 1] \in SetOf(POSSIBLE_CHARS)
    /\ pc = "bad_char" =>
          LET cands == Candidates(POSSIBLE_CHARS, good_string[index + 1])
          IN  /\ { cands[j + 1] : j \in 0..(Len(cands) - 1) }
                    = SetOf(POSSIBLE_CHARS) \ { good_string[index + 1] }
              /\ randint(Len(cands)) # {}
              /\ (op = "generate_corrupted_string" /\ Len(draws) <= MaxDraws + 1) =>
                    \A j \in 0..(Len(cands) - 1) :
                        Append(SubSeq(tape, 1, Len(draws)), j) \in CorruptedTapes[arg]

\* a corruption whose replacement symbol occurs elsewhere in the baseline
CorruptedWithSymbolOfString ==
    /\ pc = "done"
    /\ op = "generate_corrupted_string"
    /\ \E k \in 1..Len(good_string) :
          k # index + 1 /\ good_string[k] = result.value[index + 1]

\* the examples X and the labels y of a returned dataset
X == result.value[1]
y == result.value[2]

\* the string an encoded sequence stands for
Decode(ids) == [k \in 1..Len(ids) |-> POSSIBLE_CHARS[ids[k] + 1]]

\* C4: generate_dataset(N), N >= 0, returns N examples: the first N // 2
\* carry label 1 and encode strings of the embedded grammar, the other
\* N - N // 2 carry label 0 and encode corrupted strings.
DatasetIsBalanced ==
    (pc = "done" /\ op = "generate_dataset" /\ arg >= 0) =>
        /\ Len(X) = arg
        /\ Len(y) = arg
        /\ Cardinality({ k \in 1..Len(y) : y[k] = << 1 >> }) = arg \div 2
        /\ Cardinality({ k \in 1..Len(y) : y[k] = << 0 >> }) = arg - arg \div 2
        /\ \A k \in 1..Len(y) : (y[k] = << 1 >>) <=> (k <= arg \div 2)
        /\ \A k \in 1..Len(X) :
              /\ \A j \in 1..Len(X[k]) : X[k][j] \in 0..(Len(POSSIBLE_CHARS) - 1)
              /\ (k <= arg \div 2) <=> Accepts("embedded_reber_grammar", Decode(X[k]))

\* a dataset of odd size: no good string, one corrupted string
DatasetOfOddSize ==
    /\ pc = "done"
    /\ op = "generate_dataset"
    /\ arg = 1
    /\ Len(X) = 1
    /\ y = << << 0 >> >>

\* C5 (as claimed): generate_dataset returns no dataset for a negative size.
NegativeSizeRejected ==
    (pc = "done" /\ op = "generate_dataset") => arg >= 0

\* the letter-to-id table of the notebook
IdOf(c) ==
    CASE c = "B" -> 0 [] c = "E" -> 1 [] c = "P" -> 2 [] c = "S" -> 3
      [] c = "T" -> 4 [] c = "V" -> 5 [] c = "X" -> 6

\* C6: for a string over BEPSTVX, string_to_ids returns a sequence of the same
\* length whose k-th entry is the id of the k-th symbol (B=0 ... X=6), in
\* [0, 7); BTTTXXVVETE gives [0,4,4,4,6,6,5,5,1,4,1].
EncodingIsAlphabetIndex ==
    (op = "string_to_ids" /\ \A k \in 1..Len(arg) : arg[k] \in SetOf(POSSIBLE_CHARS)) =>
        /\ pc = "done"
        /\ result.exc = ""
        /\ Len(result.value) = Len(arg)
        /\ \A k \in 1..Len(arg) :
              /\ result.value[k] = IdOf(arg[k])
              /\ result.value[k] \in 0..6
        /\ arg = Example => result.value = << 0, 4, 4, 4, 6, 6, 5, 5, 1, 4, 1 >>

\* the notebook's example, encoded
ExampleEncoded ==
    /\ pc = "done"
    /\ op = "string_to_ids"
    /\ arg = Example
    /\ result.value = << 0, 4, 4, 4, 6, 6, 5, 5, 1, 4, 1 >>

\* C7: a string with a symbol outside the alphabet makes string_to_ids raise
\* (Python's ValueError); no encoded sequence is returned.
UnknownSymbolRaises ==
    (op = "string_to_ids" /\ \E k \in 1..Len(arg) : arg[k] \notin SetOf(POSSIBLE_CHARS)) =>
        /\ pc = "error"
        /\ result.exc = "ValueError"
        /\ result.value = << >>

\* an unknown symbol after two known ones
UnknownSymbolLast ==
    /\ op = "string_to_ids"
    /\ arg = << "B", "T", Foreign >>
    /\ pc = "error"

\* the draw the program is about to make: its kind and the number of values
\* it asks for
Request ==
    CASE pc = "gen" /\ stack # << >> /\ Top.state # None ->
             << "transition", NumTransitions(Top.grammar, Top.state) >>
      [] pc = "index" -> << "position", Len(good_string) >>
      [] pc = "bad_char" ->
             << "replacement", Len(Candidates(POSSIBLE_CHARS, good_string[index + 1])) >>
      [] OTHER -> << "none", 0 >>

RECURSIVE Traverse(_, _, _)
\* generate_string(g) from `state` on, read off the draws t: the string it
\* returns and the draws it leaves
Traverse(g, state, t) ==
    IF state = None \/ t = << >> THEN [s |-> << >>, rest |-> t]
    ELSE LET tr   == Transition(g, state, Head(t))
             made == IF IsList(tr.production)
                     THEN Traverse(tr.production, 0, Tail(t))
                     ELSE [s |-> << tr.production >>, rest |-> Tail(t)]
             more == Traverse(g, tr.state, made.rest)
         IN  [s |-> made.s \o more.s, rest |-> more.rest]

\* generate_corrupted_string(g), read off the draws t
Corrupt(g, t) ==
    LET good   == Traverse(g, 0, t)
        at     == good.rest[1] + 1
        others == Others(good.s[at])
    IN  [s    |-> [k \in 1..Len(good.s) |->
                     IF k = at THEN others[good.rest[2] + 1] ELSE good.s[k]],
         rest |-> SubSeq(good.rest, 3, Len(good.rest))]

RECURSIVE Examples(_, _, _)
\* n encoded strings of generate_dataset, good or bad, read off the draws t
Examples(good, n, t) ==
    IF n <= 0 THEN [rows |-> << >>, rest |-> t]
    ELSE LET one  == IF good THEN Traverse("embedded_reber_grammar", 0, t)
                     ELSE Corrupt("embedded_reber_grammar", t)
             more == Examples(good, n - 1, one.rest)
         IN  [rows |-> << string_to_ids(one.s, POSSIBLE_CHARS).value >> \o more.rows,
              rest |-> more.rest]

\* what call f(a) returns on the draws t: a function of the grammar, the
\* alphabet and the draws alone
Output(f, a, t) ==
    CASE f = "generate_string" -> Ok(Traverse(a, 0, t).s)
      [] f = "generate_corrupted_string" -> Ok(Corrupt(a, t).s)
      [] f = "generate_dataset" ->
             LET good == Examples(TRUE, NumGood(a), t)
                 bad  == Examples(FALSE, NumBad(a), good.rest)
             IN  Ok(<< good.rows \o bad.rows, Labels(good.rows, bad.rows) >>)

\* the values of the draws from + 1 .. upto
Values(from, upto) == [k \in 1..(upto - from) |-> draws[from + k].v]

\* the number of draws made before the k-th call of the cell
Before(k) == IF k = 1 THEN 0 ELSE cell[k - 1].upto

\* C8: a cell is a sequence of calls on one stream. Every call returns what
\* the grammar, the alphabet and the draws it consumed determine, whatever
\* was called before it; and the cell run again from the same seed asks for
\* the same draws in the same order and returns the same outputs, call by
\* call.
SameSeedSameOutput ==
    /\ \A k \in 1..Len(cell) :
          cell[k].result = Output(cell[k].op, cell[k].arg, Values(Before(k), cell[k].upto))
    /\ pc = "done" =>
          result = Output(op, arg, Values(Before(Len(cell) + 1), Len(draws)))
    /\ run = "replay" =>
          /\ Len(cell) <= Len(first.cell)
          /\ \A k \in 1..Len(cell) : cell[k] = first.cell[k]
          /\ Len(draws) <= Len(first.draws)
          /\ SubSeq(first.draws, 1, Len(draws)) = draws
    /\ (run = "replay" /\ pc = "done") =>
          /\ Len(cell) < Len(first.cell)
          /\ result = first.cell[Len(cell) + 1].result
          /\ Len(draws) = first.cell[Len(cell) + 1].upto
    /\ (run = "replay" /\ Request[1] # "none") =>
          /\ Len(draws) < Len(first.draws)
          /\ first.draws[Len(draws) + 1].kind = Request[1]
          /\ first.draws[Len(draws) + 1].n = Request[2]

\* the second call of a cell, a corrupted string after a generated one,
\* returned a second time after the re-seed
CorruptedTwice ==
    /\ run = "replay"
    /\ pc = "done"
    /\ Len(cell) = 1
    /\ cell[1].op = "generate_string"
    /\ op = "generate_corrupted_string"
    /\ result = first.cell[2].result

\* the kinds of the draws made so far
Kinds == [k \in 1..Len(draws) |-> draws[k].kind]

KindRank(kind) ==
    CASE kind = "transition" -> 0 [] kind = "position" -> 1 [] kind = "replacement" -> 2

Count(kind) == Cardinality({ k \in 1..Len(draws) : draws[k].kind = kind })

\* C10: in one generate_corrupted_string call the transition draws of the
\* baseline traversal come first, one per visited state, then one position
\* draw over the length of the baseline, then one replacement draw over the
\* six other symbols; generate_string alone makes transition draws only.
DrawOrder ==
    /\ \A j, k \in 1..Len(draws) : j < k => KindRank(Kinds[j]) <= KindRank(Kinds[k])
    /\ Count("position") <= 1
    /\ Count("replacement") <= Count("position")
    /\ pc = "gen" => Count("transition") = Len(draws)
    /\ op = "generate_string" => Count("transition") = Len(draws)
    /\ pc = "bad_char" => (Count("position") = 1 /\ Count("replacement") = 0)
    /\ (pc = "done" /\ op = "generate_string") =>
          Len(draws) = Len(result.value) + (IF arg = "embedded_reber_grammar" THEN 1 ELSE 0)
    /\ (pc = "done" /\ op = "generate_corrupted_string") =>
          /\ Count("position") = 1
          /\ Count("replacement") = 1
          /\ Count("transition") =
                Len(good_string) + (IF arg = "embedded_reber_grammar" THEN 1 ELSE 0)
          /\ draws[Len(draws) - 1] =
                [kind |-> "position", n |-> Len(good_string), v |-> index]
          /\ draws[Len(draws)].kind = "replacement"
          /\ draws[Len(draws)].n = Len(POSSIBLE_CHARS) - 1

\* a corrupted string of the embedded grammar: nested transition draws, then
\* the position draw, then the replacement draw
CorruptedEmbeddedDraws ==
    /\ pc = "done"
    /\ op = "generate_corrupted_string"
    /\ arg = "embedded_reber_grammar"
    /\ Len(draws) = Len(good_string) + 3
    /\ Kinds[Len(draws) - 1] = "position"
    /\ Kinds[Len(draws)] = "replacement"

\* the next-states of state s of grammar g
After(g, s) == { Transition(g, s, i).state : i \in 0..(NumTransitions(g, s) - 1) }

RECURSIVE Reach(_, _, _)
\* where a traversal of g that stands in one of S can stand after at most
\* `fuel` more iterations
Reach(g, S, fuel) ==
    IF fuel = 0 THEN S
    ELSE Reach(g, S \cup UNION { After(g, s) : s \in S \ {None} }, fuel - 1)

\* a traversal of g standing in s can still reach None
CanEnd(g, s) == None \in Reach(g, {s}, Len(Grammar(g)))

\* the transitions of state s of g that lie on a cycle: from their next
\* state the traversal can come back to s
CycleEdgesAt(g, s) ==
    IF s = None THEN {}
    ELSE { << s, Transition(g, s, i).production, Transition(g, s, i).state >> :
             i \in { j \in 0..(NumTransitions(g, s) - 1) :
                       /\ Transition(g, s, j).state # None
                       /\ s \in Reach(g, {Transition(g, s, j).state}, Len(Grammar(g))) } }

\* the S loop at 2, the T loop at 3 and the cycle 3 -> 5 -> 4 -> 3
CycleEdges ==
    { << 2, "S", 2 >>, << 3, "T", 3 >>,
      << 3, "V", 5 >>, << 5, "P", 4 >>, << 4, "X", 3 >> }

\* the states a traversal of g can visit
Visited(g) == Reach(g, {0}, Len(Grammar(g))) \ {None}

\* from every state a traversal can visit None can be reached, the
\* transitions a traversal can repeat are those of the cycles of the base
\* grammar, and every activation stands in such a state
ExitStaysReachable ==
    /\ \A g \in GrammarNames : \A s \in Visited(g) :
          /\ CanEnd(g, s)
          /\ CycleEdgesAt(g, s) =
                IF g = "default_reber_grammar"
                THEN { e \in CycleEdges : e[1] = s }
                ELSE {}
    /\ \A k \in 1..Len(stack) :
          stack[k].state \in Visited(stack[k].grammar) \cup {None}

\* an exact step of a traversal, seen by position, is the step the unseeded
\* traversal makes from that position
PositionStep ==
    (pc = "gen" /\ pc' = "gen" /\ stack' # stack) =>
        IF Top.state # None
        THEN \E i \in 0..(NumTransitions(Top.grammar, Top.state) - 1) :
                Position(stack') = Position(Iterate(Position(stack), i))
        ELSE Position(stack') = Position(Unwind(Position(stack)))

\* the step is an iteration along one of the transitions E of the base
\* grammar
Along(E) ==
    /\ pc = "walk"
    /\ pc' = "walk"
    /\ Top.grammar = "default_reber_grammar"
    /\ Top.state # None
    /\ \E i \in 0..(NumTransitions(Top.grammar, Top.state) - 1) :
          /\ stack' = Position(Iterate(stack, i))
          /\ << Top.state, Transition(Top.grammar, Top.state, i).production,
                Transition(Top.grammar, Top.state, i).state >> \in E

\* C9: under a fair random choice every call of generate_string, nested or
\* outermost, reaches None and returns; from every state a traversal can
\* visit None stays reachable; a traversal that goes on without returning
\* ends up taking only the transitions of the cycles of the base grammar:
\* the S loop at 2, the T loop at 3 and the cycle 3 -> 5 -> 4 -> 3.
EveryCallReturns ==
    /\ []ExitStaysReachable
    /\ [][PositionStep]_vars
    /\ Fairness => ((pc = "walk") ~> (pc = "returned"))
    /\ Fairness => ((pc = "walk" /\ Len(stack) = 2) ~> (Len(stack) < 2))
    /\ <>[][Along(CycleEdges)]_vars

\* an unseeded traversal of the embedded grammar, whose nested traversal has
\* the cycles of the base grammar to leave, has returned
ReturnedUnseeded ==
    /\ pc = "returned"
    /\ op = "generate_string"
    /\ arg = "embedded_reber_grammar"
    /\ stack = << >>

\* the step is a recursive call of generate_string
NestedCall == stack # << >> /\ Len(stack') = Len(stack) + 1

\* the step is a step of a nested traversal
NestedStep == Len(stack) >= 2 /\ Len(stack') = Len(stack)

\* the step is the return of a nested traversal
NestedReturn == Len(stack) >= 2 /\ Len(stack') = Len(stack) - 1

\* C11: a transition whose production is a grammar starts a traversal of that
\* grammar at state 0 with an empty output, the caller already standing at
\* the transition's next state; until that traversal has reached None the
\* caller's state and output do not change; its whole string is then
\* appended to the caller's output as one item, and the caller goes on from
\* the next state of the transition.
NestedTraversalFrame ==
    [][ /\ NestedCall =>
              LET t == Transition(Top.grammar, Top.state, draws'[Len(draws')].v)
              IN  /\ IsList(t.production)
                  /\ stack'[Len(stack')] =
                         [grammar |-> t.production, state |-> 0, output |-> << >>]
                  /\ stack'[Len(stack)].grammar = Top.grammar
                  /\ stack'[Len(stack)].output = Top.output
                  /\ stack'[Len(stack)].state = t.state
                  /\ SubSeq(stack', 1, Len(stack) - 1) = Below
        /\ NestedStep =>
              /\ SubSeq(stack', 1, Len(stack) - 1) = Below
              /\ stack'[Len(stack)].grammar = Top.grammar
        /\ NestedReturn =>
              LET caller == stack[Len(stack) - 1]
                  after  == stack'[Len(stack')]
                  block  == Join(Top.output)
              IN  /\ Top.state = None
                  /\ Accepts(Top.grammar, block)
                  /\ after.grammar = caller.grammar
                  /\ after.state = caller.state
                  /\ after.output = Append(caller.output, block)
                  /\ Join(after.output) = Join(caller.output) \o block
                  /\ SubSeq(stack', 1, Len(stack') - 1) = SubSeq(stack, 1, Len(stack) - 2)
      ]_vars

\* the outer traversal of the embedded grammar after its nested traversal
\* went round a cycle and returned: it stands at state 5, the next state of
\* the transition taken at state 3
OuterResumedAtNextState ==
    /\ pc = "gen"
    /\ Len(stack) = 1
    /\ Top.grammar = "embedded_reber_grammar"
    /\ Top.state = 5
    /\ Len(Top.output) = 3
    /\ Top.output[2] = << "P" >>
    /\ Len(Top.output[3]) > 5

\* s has the form B x w x E: x is T or P, and w is a complete string of the
\* base grammar
IsEmbeddedForm(s) ==
    /\ Len(s) >= 9
    /\ s[1] = "B"
    /\ s[2] \in {"T", "P"}
    /\ s[Len(s) - 1] = s[2]
    /\ s[Len(s)] = "E"
    /\ LET w == SubSeq(s, 3, Len(s) - 2)
       IN  /\ w[1] = "B"
           /\ w[Len(w)] = "E"
           /\ Accepts("default_reber_grammar", w)

\* C12: every string generate_string returns for the embedded grammar is
\* B x w x E with x T or P, the second symbol equal to the second-to-last, and
\* w a complete string of the base grammar; so it has at least 9 symbols.
EmbeddedForm ==
    /\ (pc = "gen" /\ Top.state = None /\ Top.grammar = "embedded_reber_grammar") =>
          IsEmbeddedForm(Join(Top.output))
    /\ (pc = "done" /\ op = "generate_string" /\ arg = "embedded_reber_grammar") =>
          IsEmbeddedForm(result.value)
    /\ (pc \in {"index", "bad_char"} /\ GrammarOf = "embedded_reber_grammar") =>
          IsEmbeddedForm(good_string)

\* a returned embedded string B P w P E whose w is longer than the shortest
\* base string
EmbeddedWithP ==
    /\ pc = "done"
    /\ op = "generate_string"
    /\ arg = "embedded_reber_grammar"
    /\ result.value[2] = "P"
    /\ result.value[Len(result.value) - 1] = "P"
    /\ Len(result.value) > 9

====
